---- MODULE Spec2Model ----
(***************************************************************************)
(* The declaration layer of the executable-semantics AST                   *)
(* (executable_semantics/ast/declaration.cpp):                             *)
(*   - FunctionDeclaration::Create, the validating constructor that scans  *)
(*     the raw implicit-parameter list one element at a time;              *)
(*   - Declaration::Print / Declaration::PrintID, the rendering engine;    *)
(*   - GetName, the name projection.                                       *)
(* Text is modelled by TLA+ strings, `out << x` by \o.  std::optional<T>   *)
(* is a sequence of length 0 (nullopt) or 1.  Entities whose rendering is  *)
(* defined outside this file (expressions, tuple patterns, blocks) are     *)
(* represented by the text they write to the stream.                       *)
(***************************************************************************)
EXTENDS Integers, Sequences, FiniteSets, TLC

VARIABLES
  \* ---- FunctionDeclaration::Create: parameters, locals, position ----
  arena,            \* the nodes the Arena owns, in allocation order
  source_loc,       \* parameter
  name,             \* parameter
  deduced_params,   \* parameter: the raw implicit-parameter list
  me_pattern,       \* parameter, reassigned by the scan (line 181)
  param_pattern,    \* parameter
  return_term,      \* parameter
  body,             \* parameter
  resolved_params,  \* local (line 167)
  param_index,      \* position of the range-for over deduced_params
  pc,               \* "scan" | "done" | "error" ("idle": no call)
  result,           \* the ErrorOr<Nonnull<FunctionDeclaration*>> returned
  me_pattern_in,    \* me_pattern as passed by the caller
  arena_in,         \* the arena as it was when Create was entered
  \* ---- rendering and name projection ----
  decl,             \* the declaration the operations are applied to
  called,           \* which of Print, PrintID, GetName have returned
  out,              \* what Print wrote to its stream
  out_id,           \* what PrintID wrote to its stream
  name_out          \* what GetName returned

create_vars == <<arena, source_loc, name, deduced_params, me_pattern,
                 param_pattern, return_term, body, resolved_params,
                 param_index, pc, result, me_pattern_in, arena_in>>
render_vars == <<decl, called, out, out_id, name_out>>
vars == <<create_vars, render_vars>>

------------------------------------------------------------------------------
\* Bounds of the model.
MaxParams == 3        \* length of the raw implicit-parameter list
MaxDeduced == 2       \* deduced bindings of a rendered function
MaxMembers == 2       \* members of a rendered interface, impl or class
MaxAlternatives == 2  \* alternatives of a rendered choice

SeqsUpTo(S, n) == UNION {[1..k -> S] : k \in 0..n}

\* std::optional
nullopt == <<>>
Some(v) == <<v>>
has_value(o) == o # <<>>
value(o) == o[1]

------------------------------------------------------------------------------
\* AST nodes.
GenericBinding(n, t) == [kind |-> "GenericBinding", name |-> n, type |-> t]
BindingPattern(n, t) == [kind |-> "BindingPattern", name |-> n, type |-> t]
ReturnTerm(k, t) == [kind |-> k, type_expression |-> t]

FunctionDeclaration(loc, n, deduced, me, param, ret, b) ==
  [kind |-> "FunctionDeclaration", source_loc |-> loc, name |-> n,
   deduced_parameters |-> deduced, me_pattern |-> me,
   param_pattern |-> param, return_term |-> ret, body |-> b]
InterfaceDeclaration(n, ms) ==
  [kind |-> "InterfaceDeclaration", name |-> n, members |-> ms]
ImplDeclaration(k, t, i, ms) ==
  [kind |-> "ImplDeclaration", impl_kind |-> k, impl_type |-> t,
   interface |-> i, members |-> ms]
ClassDeclaration(n, tp, ms) ==
  [kind |-> "ClassDeclaration", name |-> n, type_params |-> tp,
   members |-> ms]
ChoiceDeclaration(n, alts) ==
  [kind |-> "ChoiceDeclaration", name |-> n, alternatives |-> alts]
VariableDeclaration(b, init) ==
  [kind |-> "VariableDeclaration", binding |-> b, initializer |-> init]
AlternativeSignature(n, sig) == [name |-> n, signature |-> sig]

GenericBindings == {GenericBinding("T", "Type"), GenericBinding("U", "Type")}
BindingPatterns == {BindingPattern("me", "Self"), BindingPattern("me", "Self*"),
                    BindingPattern("self", "Self")}
\* A node of implicit-parameter position that is neither kind.
OtherNodes == {[kind |-> "TuplePattern", fields |-> <<>>]}
AstNodes == GenericBindings \cup BindingPatterns \cup OtherNodes

ReturnTerms == {ReturnTerm("Omitted", nullopt), ReturnTerm("Auto", nullopt),
                ReturnTerm("Expression", Some("Int"))}
SourceLocs == {[file |-> "a.carbon", line |-> 3],
               [file |-> "b.carbon", line |-> 12]}

------------------------------------------------------------------------------
\* FunctionDeclaration::Create

CompilationError(loc, msg) == [ok |-> FALSE, loc |-> loc, message |-> msg]
\* A successful ErrorOr holds the handle of the node in the arena.
Success(handle) == [ok |-> TRUE, handle |-> handle]

\* Variant of IllegalBindingPattern that forgets `me_pattern.has_value()`.
IllegalBindingPattern_NameOnly(me, bp) == bp.name # "me"

\* line 177: the test that rejects a binding pattern
IllegalBindingPattern(me, bp) == has_value(me) \/ bp.name # "me"

param == deduced_params[param_index]
InLoop == pc = "scan" /\ param_index <= Len(deduced_params)

\* Variant of ScanGenericBinding that inserts at the front of resolved_params.
ScanGenericBinding_PushFront ==
  /\ InLoop
  /\ param.kind = "GenericBinding"
  /\ resolved_params' = <<param>> \o resolved_params
  /\ param_index' = param_index + 1
  /\ UNCHANGED <<arena, source_loc, name, deduced_params, me_pattern,
                 param_pattern, return_term, body, pc, result,
                 me_pattern_in, arena_in, render_vars>>

\* lines 172-174
ScanGenericBinding ==
  /\ InLoop
  /\ param.kind = "GenericBinding"
  /\ resolved_params' = Append(resolved_params, param)
  /\ param_index' = param_index + 1
  /\ UNCHANGED <<arena, source_loc, name, deduced_params, me_pattern,
                 param_pattern, return_term, body, pc, result,
                 me_pattern_in, arena_in, render_vars>>

\* Variant of ScanBindingPattern that omits the assignment of line 181.
ScanBindingPattern_NoStore ==
  /\ InLoop
  /\ param.kind = "BindingPattern"
  /\ ~IllegalBindingPattern(me_pattern, param)
  /\ param_index' = param_index + 1
  /\ UNCHANGED <<arena, source_loc, name, deduced_params, me_pattern,
                 resolved_params, param_pattern, return_term, body, pc,
                 result, me_pattern_in, arena_in, render_vars>>

\* lines 175-183, the test of line 177 false
ScanBindingPattern ==
  /\ InLoop
  /\ param.kind = "BindingPattern"
  /\ ~IllegalBindingPattern(me_pattern, param)
  /\ me_pattern' = Some(param)
  /\ param_index' = param_index + 1
  /\ UNCHANGED <<arena, source_loc, name, deduced_params, resolved_params,
                 param_pattern, return_term, body, pc, result,
                 me_pattern_in, arena_in, render_vars>>

\* lines 175-180, the test of line 177 true
ScanIllegalBindingPattern ==
  /\ InLoop
  /\ param.kind = "BindingPattern"
  /\ IllegalBindingPattern(me_pattern, param)
  /\ result' = CompilationError(source_loc,
                  "illegal binding pattern in implicit parameter list")
  /\ pc' = "error"
  /\ UNCHANGED <<arena, source_loc, name, deduced_params, me_pattern,
                 param_pattern, return_term, body, resolved_params,
                 param_index, me_pattern_in, arena_in, render_vars>>

\* Variant of ScanIllegalAstNode whose default case skips the node instead of
\* returning.
ScanIllegalAstNode_Skip ==
  /\ InLoop
  /\ param.kind \notin {"GenericBinding", "BindingPattern"}
  /\ param_index' = param_index + 1
  /\ UNCHANGED <<arena, source_loc, name, deduced_params, me_pattern,
                 param_pattern, return_term, body, resolved_params, pc,
                 result, me_pattern_in, arena_in, render_vars>>

\* lines 184-186
ScanIllegalAstNode ==
  /\ InLoop
  /\ param.kind \notin {"GenericBinding", "BindingPattern"}
  /\ result' = CompilationError(source_loc,
                  "illegal AST node in implicit parameter list")
  /\ pc' = "error"
  /\ UNCHANGED <<arena, source_loc, name, deduced_params, me_pattern,
                 param_pattern, return_term, body, resolved_params,
                 param_index, me_pattern_in, arena_in, render_vars>>

\* lines 189-191: the loop has ended; arena->New<FunctionDeclaration>(...)
CreateReturn ==
  /\ pc = "scan"
  /\ param_index > Len(deduced_params)
  /\ arena' = Append(arena,
                 FunctionDeclaration(source_loc, name, resolved_params,
                                     me_pattern, param_pattern, return_term,
                                     body))
  /\ result' = Success(Len(arena) + 1)
  /\ pc' = "done"
  /\ UNCHANGED <<source_loc, name, deduced_params, me_pattern,
                 param_pattern, return_term, body, resolved_params,
                 param_index, me_pattern_in, arena_in, render_vars>>

\* What the caller passes besides the implicit-parameter list.
Signatures ==
  {[name |-> "foo", param_pattern |-> "()",
    return_term |-> ReturnTerm("Omitted", nullopt), body |-> nullopt],
   [name |-> "bar", param_pattern |-> "(x: Int)",
    return_term |-> ReturnTerm("Expression", Some("Int")),
    body |-> Some("return x;")]}
\* The arena holds whatever the parser allocated before the call.
InitialArenas == {<<>>, <<ClassDeclaration("Point", nullopt, <<>>)>>}

RenderIdle ==
  /\ decl = nullopt
  /\ called = {}
  /\ out = ""
  /\ out_id = ""
  /\ name_out = nullopt

\* Entry of Create: the parameters are bound, resolved_params is empty and
\* the loop is at the first element.
Init ==
  /\ arena \in InitialArenas
  /\ arena_in = arena
  /\ source_loc \in SourceLocs
  /\ \E s \in Signatures :
       /\ name = s.name
       /\ param_pattern = s.param_pattern
       /\ return_term = s.return_term
       /\ body = s.body
  /\ deduced_params \in SeqsUpTo(AstNodes, MaxParams)
  /\ me_pattern \in {nullopt} \cup {Some(bp) : bp \in BindingPatterns}
  /\ me_pattern_in = me_pattern
  /\ resolved_params = <<>>
  /\ param_index = 1
  /\ pc = "scan"
  /\ result = nullopt
  /\ RenderIdle

Next ==
  \/ ScanGenericBinding
  \/ ScanBindingPattern
  \/ ScanIllegalBindingPattern
  \/ ScanIllegalAstNode
  \/ CreateReturn

Spec == Init /\ [][Next]_vars

------------------------------------------------------------------------------
\* Properties of FunctionDeclaration::Create.

IsGenericBindingNode(n) == n.kind = "GenericBinding"
IsBindingPatternNode(n) == n.kind = "BindingPattern"
ListedBindingPatterns == SelectSeq(deduced_params, IsBindingPatternNode)
ListedGenericBindings == SelectSeq(deduced_params, IsGenericBindingNode)
Returned == pc \in {"done", "error"}
Created == arena[result.handle]

\* The list holds only generic bindings and at most one binding pattern,
\* which is named `me`.
AcceptableList ==
  /\ \A i \in 1..Len(deduced_params) :
       \/ IsGenericBindingNode(deduced_params[i])
       \/ IsBindingPatternNode(deduced_params[i]) /\ deduced_params[i].name = "me"
  /\ Len(ListedBindingPatterns) <= 1

\* The list holds a node of another kind, a binding pattern not named `me`,
\* or more than one binding pattern.
RejectableList ==
  \/ \E i \in 1..Len(deduced_params) :
       ~IsGenericBindingNode(deduced_params[i]) /\ ~IsBindingPatternNode(deduced_params[i])
  \/ \E i \in 1..Len(deduced_params) :
       IsBindingPatternNode(deduced_params[i]) /\ deduced_params[i].name # "me"
  \/ Len(ListedBindingPatterns) > 1

\* C1 as stated: for an acceptable list Create succeeds whatever the other
\* arguments are, and the self-binding of the declaration is the list's
\* binding pattern, or absent when the list has none.
C1_AcceptedWhateverTheArguments ==
  (Returned /\ AcceptableList) =>
    /\ pc = "done"
    /\ Created.me_pattern = IF ListedBindingPatterns # <<>>
                              THEN Some(ListedBindingPatterns[1])
                              ELSE nullopt

\* C1 amended: for an acceptable list Create succeeds exactly when the
\* separate self-binding argument is absent or the list holds no binding
\* pattern; on success the self-binding is the list's binding pattern if
\* there is one and otherwise the separate argument (absent if none).
C1_AcceptedUnlessSelfBindingGivenTwice ==
  (Returned /\ AcceptableList) =>
    /\ pc = "done" <=> (~has_value(me_pattern_in) \/ ListedBindingPatterns = <<>>)
    /\ pc = "done" =>
         Created.me_pattern = IF ListedBindingPatterns # <<>>
                                THEN Some(ListedBindingPatterns[1])
                                ELSE me_pattern_in

C1_Witness ==
  /\ pc = "done"
  /\ ~has_value(me_pattern_in)
  /\ Len(ListedBindingPatterns) = 1
  /\ Len(ListedGenericBindings) >= 1
  /\ Created.me_pattern = Some(ListedBindingPatterns[1])

\* C2: Create returns an error, and allocates no declaration, whenever the
\* list holds a node that is neither a generic binding nor a binding
\* pattern, a binding pattern not named `me`, or more than one binding
\* pattern, wherever the node is and whatever surrounds it.
C2_RejectableListIsRejected ==
  (Returned /\ RejectableList) =>
    /\ pc = "error"
    /\ ~result.ok
    /\ arena = arena_in

C2_Witness ==
  /\ pc = "error"
  /\ Len(deduced_params) = 3
  /\ IsGenericBindingNode(deduced_params[1])
  /\ Len(ListedBindingPatterns) = 2
  /\ \A i \in 1..2 : ListedBindingPatterns[i].name = "me"
  /\ ~has_value(me_pattern_in)

\* C3: every declaration Create returns has at most one self-binding, and
\* the self-binding, when present, is a binding pattern named `me`, also
\* when it came through the separate self-binding argument.
C3_SelfBindingIsNamedMe ==
  pc = "done" =>
    /\ Len(Created.me_pattern) <= 1
    /\ has_value(Created.me_pattern) =>
         /\ value(Created.me_pattern).kind = "BindingPattern"
         /\ value(Created.me_pattern).name = "me"

\* The element at i is one the scan rejects: another kind of node, a binding
\* pattern not named `me`, or a binding pattern met when a self-binding is
\* already there (passed by the caller, or listed before i).
InvalidAt(i) ==
  \/ ~IsGenericBindingNode(deduced_params[i]) /\ ~IsBindingPatternNode(deduced_params[i])
  \/ /\ IsBindingPatternNode(deduced_params[i])
     /\ \/ deduced_params[i].name # "me"
        \/ has_value(me_pattern_in)
        \/ \E j \in 1..(i - 1) : IsBindingPatternNode(deduced_params[j])

\* C4: Create is fail-fast and atomic with respect to the arena. A call that
\* returns an error stopped at the first invalid element, left the arena as
\* it was and carries source_loc; a call that succeeds scanned the whole
\* list, found nothing invalid, and allocated exactly one
\* FunctionDeclaration, at the end.
C4_FailFastAndAtomic ==
  /\ pc = "scan" => arena = arena_in /\ result = nullopt
  /\ pc = "error" =>
       /\ arena = arena_in
       /\ ~result.ok
       /\ result.loc = source_loc
       /\ param_index \in 1..Len(deduced_params)
       /\ InvalidAt(param_index)
       /\ \A j \in 1..(param_index - 1) : ~InvalidAt(j)
  /\ pc = "done" =>
       /\ param_index = Len(deduced_params) + 1
       /\ \A j \in 1..Len(deduced_params) : ~InvalidAt(j)
       /\ Len(arena) = Len(arena_in) + 1
       /\ SubSeq(arena, 1, Len(arena_in)) = arena_in
       /\ result.ok
       /\ result.handle = Len(arena)
       /\ Created.kind = "FunctionDeclaration"

C4_Witness ==
  /\ pc = "error"
  /\ Len(deduced_params) = 3
  /\ param_index = 2
  /\ arena # <<>>
  /\ InvalidAt(3)

\* C9: on success the deduced-parameter list of the declaration is the
\* subsequence of the generic bindings of the raw list, in the same order,
\* without the accepted `me` binding pattern.
C9_DeducedAreTheGenericBindingsInOrder ==
  pc = "done" => Created.deduced_parameters = ListedGenericBindings

C9_Witness ==
  /\ pc = "done"
  /\ Len(deduced_params) = 3
  /\ deduced_params[1] = GenericBinding("U", "Type")
  /\ IsBindingPatternNode(deduced_params[2])
  /\ deduced_params[3] = GenericBinding("T", "Type")
  /\ Created.deduced_parameters =
       <<GenericBinding("U", "Type"), GenericBinding("T", "Type")>>

------------------------------------------------------------------------------
\* Rendering: leaf entities.

\* Pattern::Print for a binding pattern, `<name>: <type>`.
BindingPatternPrint(b) == b.name \o ": " \o b.type

\* lines 140-142
GenericBindingPrint(g) == g.name \o ":! " \o g.type

\* line 144
GenericBindingPrintID(g) == g.name

\* Variant of ReturnTermPrint whose Auto case writes nothing.
ReturnTermPrint_AutoWritesNothing(r) ==
  CASE r.kind = "Omitted" -> ""
    [] r.kind = "Auto" -> ""
    [] r.kind = "Expression" -> "-> " \o value(r.type_expression)

\* lines 146-158
ReturnTermPrint(r) ==
  CASE r.kind = "Omitted" -> ""
    [] r.kind = "Auto" -> "-> auto"
    [] r.kind = "Expression" -> "-> " \o value(r.type_expression)

\* Variant of AlternativeSignaturePrint that writes the identity form only.
AlternativeSignaturePrint_NameOnly(a) == a.name

\* lines 214-216
AlternativeSignaturePrint(a) == "alt " \o a.name \o " " \o a.signature

\* lines 218-220
AlternativeSignaturePrintID(a) == a.name

\* llvm::ListSeparator (line 198): nothing before the first element, ", "
\* before each later one.
ListSeparator(first) == IF first THEN "" ELSE ", "

\* lines 199-201: the loop over deduced_parameters_, up to element n
RECURSIVE PrintDeducedUpTo(_, _)
PrintDeducedUpTo(deduced, n) ==
  IF n = 0 THEN ""
  ELSE PrintDeducedUpTo(deduced, n - 1)
         \o ListSeparator(n = 1) \o GenericBindingPrint(deduced[n])

\* lines 194-212; Block::PrintDepth writes the text of the body
FunctionDeclarationPrintDepth(depth, d) ==
  "fn " \o d.name \o " "
  \o (IF d.deduced_parameters # <<>>
        THEN "[" \o PrintDeducedUpTo(d.deduced_parameters,
                                     Len(d.deduced_parameters)) \o "]"
        ELSE "")
  \o d.param_pattern \o ReturnTermPrint(d.return_term)
  \o (IF has_value(d.body)
        THEN " {\n" \o value(d.body) \o "\n}\n"
        ELSE ";\n")

------------------------------------------------------------------------------
\* Declaration::PrintID, one operator per case of the switch.

\* lines 81-85
InterfacePrintID(d) == "interface" \o d.name

\* lines 86-98
ImplPrintID(d) ==
  (CASE d.impl_kind = "InternalImpl" -> ""
     [] d.impl_kind = "ExternalImpl" -> "external ")
  \o "impl " \o d.impl_type \o " as " \o d.interface

\* Variant of FunctionPrintID without the space after the keyword.
FunctionPrintID_NoSpace(d) == "fn" \o d.name

\* lines 99-101
FunctionPrintID(d) == "fn " \o d.name

\* lines 103-107
ClassPrintID(d) == "class " \o d.name

\* lines 109-113
ChoicePrintID(d) == "choice " \o d.name

\* lines 115-119
VariablePrintID(d) == "var " \o BindingPatternPrint(d.binding)

\* lines 79-121
DeclarationPrintID(d) ==
  CASE d.kind = "InterfaceDeclaration" -> InterfacePrintID(d)
    [] d.kind = "ImplDeclaration" -> ImplPrintID(d)
    [] d.kind = "FunctionDeclaration" -> FunctionPrintID(d)
    [] d.kind = "ClassDeclaration" -> ClassPrintID(d)
    [] d.kind = "ChoiceDeclaration" -> ChoicePrintID(d)
    [] d.kind = "VariableDeclaration" -> VariablePrintID(d)

------------------------------------------------------------------------------
\* Declaration::Print

\* lines 60-62: the loop over the alternatives
RECURSIVE PrintAlternatives(_)
PrintAlternatives(alts) ==
  IF alts = <<>> THEN ""
  ELSE AlternativeSignaturePrint(Head(alts)) \o ";\n"
         \o PrintAlternatives(Tail(alts))

RECURSIVE DeclarationPrint(_)
RECURSIVE PrintMembers(_)

\* lines 22-24, 32-34, 49-51: the loop `out << *m` over the members
PrintMembers(members) ==
  IF members = <<>> THEN ""
  ELSE DeclarationPrint(Head(members)) \o PrintMembers(Tail(members))

\* lines 16-77
DeclarationPrint(d) ==
  CASE d.kind = "InterfaceDeclaration" ->
         DeclarationPrintID(d) \o " {\n" \o PrintMembers(d.members) \o "}\n"
    [] d.kind = "ImplDeclaration" ->
         DeclarationPrintID(d) \o " {\n" \o PrintMembers(d.members) \o "}\n"
    [] d.kind = "FunctionDeclaration" ->
         FunctionDeclarationPrintDepth(-1, d)
    [] d.kind = "ClassDeclaration" ->
         DeclarationPrintID(d)
         \o (IF has_value(d.type_params) THEN value(d.type_params) ELSE "")
         \o " {\n" \o PrintMembers(d.members) \o "}\n"
    [] d.kind = "ChoiceDeclaration" ->
         DeclarationPrintID(d) \o " {\n"
         \o PrintAlternatives(d.alternatives) \o "}\n"
    [] d.kind = "VariableDeclaration" ->
         DeclarationPrintID(d)
         \o (IF has_value(d.initializer)
               THEN " = " \o value(d.initializer) ELSE "")
         \o ";\n"

------------------------------------------------------------------------------
\* GetName

\* Variant of GetName that has no name for a variable either.
GetName_VariableUnnamed(declaration) ==
  CASE declaration.kind = "FunctionDeclaration" -> Some(declaration.name)
    [] declaration.kind = "ClassDeclaration" -> Some(declaration.name)
    [] declaration.kind = "ChoiceDeclaration" -> Some(declaration.name)
    [] declaration.kind = "InterfaceDeclaration" -> Some(declaration.name)
    [] declaration.kind = "VariableDeclaration" -> nullopt
    [] declaration.kind = "ImplDeclaration" -> nullopt

\* lines 123-138
GetName(declaration) ==
  CASE declaration.kind = "FunctionDeclaration" -> Some(declaration.name)
    [] declaration.kind = "ClassDeclaration" -> Some(declaration.name)
    [] declaration.kind = "ChoiceDeclaration" -> Some(declaration.name)
    [] declaration.kind = "InterfaceDeclaration" -> Some(declaration.name)
    [] declaration.kind = "VariableDeclaration" ->
         Some(declaration.binding.name)
    [] declaration.kind = "ImplDeclaration" -> nullopt

------------------------------------------------------------------------------
\* The declarations the rendering operations are applied to.

FunctionDeclarations ==
  {FunctionDeclaration([file |-> "a.carbon", line |-> 3], n, deduced, me,
                       pp, rt, b) :
     n \in {"foo", "bar"},
     deduced \in SeqsUpTo(GenericBindings, MaxDeduced),
     me \in {nullopt, Some(BindingPattern("me", "Self"))},
     pp \in {"()", "(x: Int)"},
     rt \in ReturnTerms,
     b \in {nullopt, Some("return x;")}}

VariableDeclarations ==
  {VariableDeclaration(b, init) :
     b \in {BindingPattern("x", "Int"), BindingPattern("name", "String")},
     init \in {nullopt, Some("0")}}

\* Declarations nested in an interface, an impl or a class.
MemberDeclarations ==
  {FunctionDeclaration([file |-> "a.carbon", line |-> 3], "foo", <<>>,
                       nullopt, "()", ReturnTerm("Omitted", nullopt), nullopt),
   VariableDeclaration(BindingPattern("x", "Int"), Some("0")),
   ClassDeclaration("Inner", nullopt,
                    <<VariableDeclaration(BindingPattern("x", "Int"), nullopt)>>)}
MemberLists == SeqsUpTo(MemberDeclarations, MaxMembers)

InterfaceDeclarations ==
  {InterfaceDeclaration(n, ms) : n \in {"Vector", "Shape"}, ms \in MemberLists}

ImplDeclarations ==
  {ImplDeclaration(k, "Point", "Vector", ms) :
     k \in {"InternalImpl", "ExternalImpl"}, ms \in MemberLists}

ClassDeclarations ==
  {ClassDeclaration("Point", tp, ms) :
     tp \in {nullopt, Some("(T:! Type)")}, ms \in MemberLists}

AlternativeSignatures ==
  {AlternativeSignature("Circle", "(Float)"),
   AlternativeSignature("Square", "(Float)")}
ChoiceDeclarations ==
  {ChoiceDeclaration("Shape", alts) :
     alts \in SeqsUpTo(AlternativeSignatures, MaxAlternatives)}

Declarations ==
  InterfaceDeclarations \cup ImplDeclarations \cup FunctionDeclarations
    \cup ClassDeclarations \cup ChoiceDeclarations \cup VariableDeclarations

\* `out << declaration` into an empty stream
StreamPrint ==
  /\ "Print" \notin called
  /\ out' = DeclarationPrint(decl)
  /\ called' = called \cup {"Print"}
  /\ UNCHANGED <<decl, out_id, name_out, create_vars>>

\* declaration.PrintID(out) into an empty stream
StreamPrintID ==
  /\ "PrintID" \notin called
  /\ out_id' = DeclarationPrintID(decl)
  /\ called' = called \cup {"PrintID"}
  /\ UNCHANGED <<decl, out, name_out, create_vars>>

CallGetName ==
  /\ "GetName" \notin called
  /\ name_out' = GetName(decl)
  /\ called' = called \cup {"GetName"}
  /\ UNCHANGED <<decl, out, out_id, create_vars>>

\* No call of Create is under way.
CreateIdle ==
  /\ arena = <<>>
  /\ arena_in = <<>>
  /\ source_loc = nullopt
  /\ name = ""
  /\ deduced_params = <<>>
  /\ me_pattern = nullopt
  /\ me_pattern_in = nullopt
  /\ param_pattern = ""
  /\ return_term = nullopt
  /\ body = nullopt
  /\ resolved_params = <<>>
  /\ param_index = 1
  /\ pc = "idle"
  /\ result = nullopt

RenderInit ==
  /\ decl \in Declarations
  /\ called = {}
  /\ out = ""
  /\ out_id = ""
  /\ name_out = nullopt
  /\ CreateIdle

RenderNext ==
  \/ StreamPrint
  \/ StreamPrintID
  \/ CallGetName

RenderSpec == RenderInit /\ [][RenderNext]_vars

------------------------------------------------------------------------------
\* Properties of GetName and of the rendering engine.

Printed == "Print" \in called
PrintedID == "PrintID" \in called
Named == "GetName" \in called

IsPrefix(p, t) == Len(p) <= Len(t) /\ SubSeq(t, 1, Len(p)) = p

\* C5: GetName is total over the six cases: a function, class, choice or
\* interface yields its own name, a variable the name of its binding, an
\* impl yields no name whatever it holds, and nothing else yields no name.
C5_GetNameIsTotal ==
  Named =>
    /\ decl.kind \in {"FunctionDeclaration", "ClassDeclaration",
                      "ChoiceDeclaration", "InterfaceDeclaration",
                      "VariableDeclaration", "ImplDeclaration"}
    /\ decl.kind \in {"FunctionDeclaration", "ClassDeclaration",
                      "ChoiceDeclaration", "InterfaceDeclaration"}
         => name_out = <<decl.name>>
    /\ decl.kind = "VariableDeclaration" => name_out = <<decl.binding.name>>
    /\ decl.kind = "ImplDeclaration" => name_out = <<>>
    /\ name_out = <<>> => decl.kind = "ImplDeclaration"

C5_Witness ==
  /\ Named
  /\ decl.kind = "ImplDeclaration"
  /\ decl.impl_kind = "ExternalImpl"
  /\ Len(decl.members) = 2
  /\ name_out = <<>>

\* C6: for an interface named N with members M, the full form is
\* `interface N {\n`, then the full form of each member in order, then `}\n`.
C6_InterfaceFullForm ==
  (Printed /\ decl.kind = "InterfaceDeclaration") =>
    out = "interface " \o decl.name \o " {\n"
            \o PrintMembers(decl.members) \o "}\n"

\* The alternatives as C7 states them: the signature directly after the name.
RECURSIVE AlternativesWithoutSpace(_)
AlternativesWithoutSpace(alts) ==
  IF alts = <<>> THEN ""
  ELSE "alt " \o Head(alts).name \o Head(alts).signature \o ";\n"
         \o AlternativesWithoutSpace(Tail(alts))

\* The alternatives with one space between the name and the signature.
RECURSIVE AlternativesWithSpace(_)
AlternativesWithSpace(alts) ==
  IF alts = <<>> THEN ""
  ELSE "alt " \o Head(alts).name \o " " \o Head(alts).signature \o ";\n"
         \o AlternativesWithSpace(Tail(alts))

Shape ==
  ChoiceDeclaration("Shape", <<AlternativeSignature("Circle", "(Float)"),
                               AlternativeSignature("Square", "(Float)")>>)

\* C7 as stated: the full form of a choice is `choice N {\n`, then
\* `alt <name><signature>;\n` for each alternative in order, then `}\n`;
\* Shape renders as `choice Shape {\nalt Circle(Float);\nalt Square(Float);\n}\n`.
C7_SignatureDirectlyAfterName ==
  (Printed /\ decl.kind = "ChoiceDeclaration") =>
    /\ out = "choice " \o decl.name \o " {\n"
               \o AlternativesWithoutSpace(decl.alternatives) \o "}\n"
    /\ decl = Shape =>
         out = "choice Shape {\nalt Circle(Float);\nalt Square(Float);\n}\n"

\* C7 amended: the full form of a choice is `choice N {\n`, then
\* `alt <name> <signature>;\n` for each alternative in order, with one space
\* between the name and the signature, then `}\n`; Shape renders as
\* `choice Shape {\nalt Circle (Float);\nalt Square (Float);\n}\n`.
C7_SignatureAfterNameAndSpace ==
  (Printed /\ decl.kind = "ChoiceDeclaration") =>
    /\ out = "choice " \o decl.name \o " {\n"
               \o AlternativesWithSpace(decl.alternatives) \o "}\n"
    /\ decl = Shape =>
         out = "choice Shape {\nalt Circle (Float);\nalt Square (Float);\n}\n"

C7_Witness ==
  /\ Printed
  /\ decl = Shape
  /\ out = "choice Shape {\nalt Circle (Float);\nalt Square (Float);\n}\n"

\* The bracketed list of C8: each binding as `<name>:! <type>`, in stored
\* order, separated by ", ".
RECURSIVE BindingsInOrder(_)
BindingsInOrder(gs) ==
  IF gs = <<>> THEN ""
  ELSE Head(gs).name \o ":! " \o Head(gs).type
         \o (IF Tail(gs) = <<>> THEN "" ELSE ", " \o BindingsInOrder(Tail(gs)))

Foo ==
  FunctionDeclaration([file |-> "a.carbon", line |-> 3], "foo", <<>>, nullopt,
                      "()", ReturnTerm("Omitted", nullopt), nullopt)

\* C8: the full form of a function is `fn <name> `, the bracketed list of
\* its deduced bindings iff there are any, the parameter pattern, the return
\* term (nothing, `-> auto` or `-> <type>`), then ` {\n<body>\n}\n` when
\* there is a body and `;\n` otherwise; foo renders as `fn foo ();\n`.
C8_FunctionFullForm ==
  (Printed /\ decl.kind = "FunctionDeclaration") =>
    /\ out = "fn " \o decl.name \o " "
               \o (IF Len(decl.deduced_parameters) > 0
                     THEN "[" \o BindingsInOrder(decl.deduced_parameters) \o "]"
                     ELSE "")
               \o decl.param_pattern
               \o (IF decl.return_term.kind = "Omitted" THEN ""
                   ELSE IF decl.return_term.kind = "Auto" THEN "-> auto"
                   ELSE "-> " \o decl.return_term.type_expression[1])
               \o (IF decl.body # <<>>
                     THEN " {\n" \o decl.body[1] \o "\n}\n"
                     ELSE ";\n")
    /\ decl = Foo => out = "fn foo ();\n"

C8_Witness ==
  /\ Printed
  /\ decl.kind = "FunctionDeclaration"
  /\ Len(decl.deduced_parameters) = 2
  /\ out = "fn bar [U:! Type, T:! Type](x: Int)-> auto {\nreturn x;\n}\n"

\* C10: for a declaration of any of the six cases, what PrintID writes is a
\* prefix of what Print writes.
C10_IdentityFormIsPrefixOfFullForm ==
  (Printed /\ PrintedID) => IsPrefix(out_id, out)

C10_Witness ==
  /\ Printed
  /\ PrintedID
  /\ decl.kind = "FunctionDeclaration"
  /\ decl.deduced_parameters # <<>>
  /\ out_id = "fn foo"
  /\ Len(out) > Len(out_id)

====
